---- MODULE Spec2Model ----
(***************************************************************************)
(* r.trench: a trapezoid trench cut into a raster DTM along a vector line. *)
(* The model follows main() of r.trench.py statement by statement.         *)
(*                                                                         *)
(* Numbers.  Heights (startheight, endheight, vres, depth, DTM values) are *)
(* held as integers counting 1/Scale of a unit, widths and distances as    *)
(* integers in whole units.  Every quotient of the program is kept as an   *)
(* exact fraction (numerator, denominator) and rounded as Python rounds.   *)
(*                                                                         *)
(* Rasters.  A raster is a function from the cells that hold a value; a    *)
(* cell outside its DOMAIN is NULL (no-data).  The modelled window is one  *)
(* column of cells across the path: cell c has its centre at (0, HRes*c),  *)
(* station number k lies on the path at (lines[k], 0).                     *)
(***************************************************************************)
EXTENDS Integers, Sequences, FiniteSets, TLC

\* ---------------------------------------------------------------- bounds
Scale     == 2    \* heights are counted in 1/Scale units
HRes      == 2    \* cell size of the window (option hres)
NumCells  == 3    \* cells of the window
MaxHeight == 4    \* highest DTM value, in 1/Scale units
MaxLength == 2    \* longest path, in whole units (one station per unit)
SmallCap  == 4    \* a limitrunlayers small enough to truncate

\* ------------------------------------------------------ program constants
DefaultLimit == 2000   \* limitrunlayers when the option is left alone
BufDist      == 200    \* distance of the l_*_buf200 mask

Cells == 0 .. (NumCells - 1)

VARIABLES
    options,     \* the parsed options (heights, widths, cap)
    python,      \* 2 or 3: the interpreter, which decides how round() breaks ties
    lines,       \* along-distance of each sampled station (lines[k][4])
    dtm,         \* the input DTM raster (basedtm)
    pc,          \* position in main()
    error,       \* the exception that ended the run, or "none"
    length,      \* lines[-1][4]
    maxH,        \* r.univar maximum + vRes
    vLevels,
    hSeries,     \* hSeries[n]: the elevation of level n (Python hSeries[n-1])
    db,          \* db[n]: the entries (station, half-width) of level n
    i,           \* index of the station the assignment loop is at
    n,           \* index of the level the rasterize / sweep loop is at
    buf_diss,    \* buf_diss[n]: the raster l_<base>_<n>_buf_diss
    source,      \* the raster "source" of the sweep
    dtm_out,     \* the raster dtm_<base>
    diff,        \* the raster diff_<base>
    m3,          \* the reported volume, in 1/Scale units
    gridOps,     \* number of GRASS commands issued so far
    messages,    \* kinds of message given to the user so far
    applied      \* levels named by the "Applying: ..." messages, in order

vars == <<options, python, lines, dtm, pc, error, length, maxH, vLevels, hSeries,
          db, i, n, buf_diss, source, dtm_out, diff, m3, gridOps, messages, applied>>

\* ------------------------------------------------------------ the inputs
StartHeights == {0, 3, MaxHeight + 2}
EndHeights   == {0, 1}
VResValues   == {1, Scale}
DepthValues  == {Scale, 2 * Scale}
WidthValues  == {2, 4}
MaxWidthValues == {2, 6}
LimitValues  == {SmallCap, DefaultLimit}
TerrainValues == {1, MaxHeight}

NoRaster == [c \in {} |-> 0]

\* The DTM covers the path itself (cell 0); any other cell may be NULL.
Terrains ==
    UNION { [S -> TerrainValues] : S \in {S \in SUBSET Cells : 0 \in S} }

\* v.to.points: one station per unit of along-distance, the first at 0.
Stations(len) == [k \in 1 .. (len + 1) |-> k - 1]

\* ----------------------------------------------------------- arithmetic
Min2(a, b) == IF a < b THEN a ELSE b

MinOf(S) == CHOOSE x \in S : \A y \in S : x <= y
MaxOf(S) == CHOOSE x \in S : \A y \in S : y <= x

\* Python 2 round(): ties go away from zero.   num/den with den > 0.
RoundHalfAway(num, den) ==
    IF num >= 0 THEN (2 * num + den) \div (2 * den)
                ELSE -((2 * (-num) + den) \div (2 * den))

\* Python 3 round(): ties go to the even neighbour.
RoundHalfEven(num, den) ==
    LET f  == num \div den
        r2 == 2 * (num - f * den)
    IN  IF r2 < den THEN f
        ELSE IF r2 > den THEN f + 1
        ELSE IF f % 2 = 0 THEN f ELSE f + 1

PyRound(num, den) ==
    IF python = 2 THEN RoundHalfAway(num, den) ELSE RoundHalfEven(num, den)

\* ------------------------------------------------- the option arithmetic
\* sideRatio = (chMaxWidth - chWidth) / 2 / depth.  With vRes and depth both
\* counted in 1/Scale units, vRes*sideRatio is vRes * SideRatioNum / WidthDen.
SideRatioNum == options.chMaxWidth - options.chWidth

\* Every half-width is held as a numerator over WidthDen.
WidthDen == 2 * options.depth

\* chWidth/2 over WidthDen.
BottomHalfWidth == options.chWidth * options.depth

\* chMaxWidth/2 over WidthDen.
MaxHalfWidth == options.chMaxWidth * options.depth

\* bufferWidth = chWidth/2 + (levelUp - level)*vRes*sideRatio, over WidthDen.
BufferWidth(level, levelUp) ==
    BottomHalfWidth + (levelUp - level) * options.vRes * SideRatioNum

\* if bufferWidth <= (chMaxWidth/2)
WidthFits(level, levelUp) == BufferWidth(level, levelUp) <= MaxHalfWidth

\* vLevels = int(round((maxH - endHeight)/vRes)) + 2
VLevelsOf(mh) == PyRound(mh - options.endHeight, options.vRes) + 2

\* round((n-1)*vRes + endHeight), a whole number of units.
LevelElevation(m) == PyRound((m - 1) * options.vRes + options.endHeight, Scale)

\* tmp = quo*along + startHeight with quo = (endHeight - startHeight)/length;
\* level = int(round((tmp - endHeight)/vRes + 1)).   Needs length > 0.
LevelOf(along) ==
    PyRound((options.startHeight - options.endHeight) * (length - along)
              + length * options.vRes,
            length * options.vRes)

\* hSeries[level-1] of a Python list of vLevels-1 items: a negative index
\* counts from the end, anything else outside the list raises IndexError.
ListIndexOk(level) == (level - 1 >= -(vLevels - 1)) /\ (level - 1 <= vLevels - 2)

\* db[level] of a dict with the keys 1 .. vLevels-1.
DictKeyOk(level) == level \in 1 .. (vLevels - 1)

\* range(1, min(vLevels, limitRunLayers))
RunLevels == 1 .. (Min2(vLevels, options.limitRunLayers) - 1)

\* ----------------------------------------------------------- the rasters
\* Squared distance of cell c from the station of entry e.
Dist2(e, c) == lines[e.st] * lines[e.st] + (HRes * c) * (HRes * c)

\* v.buffer column=width around one point: the disk of radius e.w/WidthDen;
\* a negative width buffers nothing.
Covers(e, c) == e.w >= 0 /\ Dist2(e, c) * WidthDen * WidthDen <= e.w * e.w

\* v.buffer of the line by dist2/2 (r.mask vector=...): the cells of the
\* window within that distance of the path, which passes through cell 0.
LineBuffer(dist2) == {c \in Cells : 2 * HRes * c <= dist2}

\* v.in.ascii, v.buffer, v.db.update level=hSeries[n-1], v.to.rast use=attr:
\* the level's elevation inside the union of its disks, NULL elsewhere.
Rasterize(m) ==
    [c \in {c \in Cells : \E k \in 1 .. Len(db[m]) : Covers(db[m][k], c)}
       |-> hSeries[m] * Scale]

\* Mutants of MergeCell: the footprint always wins; the comparison is turned.
MergeCellOverwrite(f, s) == f

MergeCellLarger(f, s) == IF f > s THEN f ELSE s

\* One cell of: if(isnull(F), source, if(F < source, F, source)).
MergeCell(f, s) == IF f < s THEN f ELSE s

\* Mutant of MapcalcMerge: the isnull() test is lost, so a cell outside the
\* footprint becomes NULL.
MapcalcMergeNoNullTest(F, src) ==
    [c \in (DOMAIN src) \cap (DOMAIN F) |-> IF F[c] < src[c] THEN F[c] ELSE src[c]]

\* temp = if(isnull(F), source, if(F < source, F, source)).  A NULL source
\* makes "F < source" NULL, and if() of a NULL condition is NULL.
MapcalcMerge(F, src) ==
    [c \in DOMAIN src |-> IF c \in DOMAIN F THEN MergeCell(F[c], src[c]) ELSE src[c]]

\* dtm_<base> = if(isnull(source), basedtm, source)
MapcalcFill(src, base) ==
    [c \in (DOMAIN src) \cup (DOMAIN base)
       |-> IF c \in DOMAIN src THEN src[c] ELSE base[c]]

\* diff_<base> = basedtm - dtm_<base>, read through the buf200 mask.
MapcalcDiff(base, out) ==
    [c \in (DOMAIN base) \cap (DOMAIN out) \cap LineBuffer(2 * BufDist)
       |-> base[c] - out[c]]

RECURSIVE SumOver(_, _)
SumOver(r, S) ==
    IF S = {} THEN 0
    ELSE LET c == CHOOSE x \in S : TRUE IN r[c] + SumOver(r, S \ {c})

\* r.univar sum
UnivarSum(r) == SumOver(r, DOMAIN r)

\* r.univar maximum of l_<base>_maxbuf = basedtm inside the maxwidth/2 buffer.
UnivarMax(base) ==
    MaxOf({base[c] : c \in (DOMAIN base) \cap LineBuffer(options.chMaxWidth)})

\* ------------------------------------------------------------------ Init
Init ==
    /\ options \in [startHeight : StartHeights, endHeight : EndHeights,
                    vRes : VResValues, depth : DepthValues,
                    chWidth : WidthValues, chMaxWidth : MaxWidthValues,
                    limitRunLayers : LimitValues]
    /\ python \in {2, 3}
    /\ lines \in {Stations(len) : len \in 0 .. MaxLength}
    /\ dtm \in Terrains
    /\ pc = "start"
    /\ error = "none"
    /\ length = 0
    /\ maxH = 0
    /\ vLevels = 0
    /\ hSeries = << >>
    /\ db = << >>
    /\ i = 1
    /\ n = 1
    /\ buf_diss = << >>
    /\ source = NoRaster
    /\ dtm_out = NoRaster
    /\ diff = NoRaster
    /\ m3 = 0
    /\ gridOps = 0
    /\ messages = {}
    /\ applied = << >>

\* --------------------------------------------------------------- actions
\* g.region x3, v.to.points, v.out.ascii
SetupRegion ==
    /\ pc = "start"
    /\ gridOps' = gridOps + 5
    /\ pc' = "read"
    /\ UNCHANGED <<options, python, lines, dtm, error, length, maxH, vLevels,
                   hSeries, db, i, n, buf_diss, source, dtm_out, diff, m3,
                   messages, applied>>

\* length = float(lines[-1][4]); the profile file is written.
ReadProfile ==
    /\ pc = "read"
    /\ length' = lines[Len(lines)]
    /\ messages' = messages \cup {"Path length", "Profile"}
    /\ pc' = "corridor"
    /\ UNCHANGED <<options, python, lines, dtm, error, maxH, vLevels, hSeries,
                   db, i, n, buf_diss, source, dtm_out, diff, m3, gridOps,
                   applied>>

\* v.buffer, r.mask, r.mapcalc, r.univar, r.mask -r; maxH and vLevels.
CorridorPeak ==
    /\ pc = "corridor"
    /\ maxH' = UnivarMax(dtm) + options.vRes
    /\ vLevels' = VLevelsOf(UnivarMax(dtm) + options.vRes)
    /\ gridOps' = gridOps + 5
    /\ messages' = messages \cup {"Maximum height", "Number of levels"}
    /\ pc' = "levels"
    /\ UNCHANGED <<options, python, lines, dtm, error, length, hSeries, db, i,
                   n, buf_diss, source, dtm_out, diff, m3, applied>>

\* for n in range(1, vLevels): hSeries.append(...); db[n] = []
BuildLevels ==
    /\ pc = "levels"
    /\ hSeries' = [m \in 1 .. (vLevels - 1) |-> LevelElevation(m)]
    /\ db' = [m \in 1 .. (vLevels - 1) |-> << >>]
    /\ pc' = "slope"
    /\ UNCHANGED <<options, python, lines, dtm, error, length, maxH, vLevels,
                   i, n, buf_diss, source, dtm_out, diff, m3, gridOps,
                   messages, applied>>

\* quo = (endHeight - startHeight)/length
Slope ==
    /\ pc = "slope"
    /\ length # 0
    /\ messages' = messages \cup {"Start height", "End height", "Slope ratio"}
    /\ i' = 1
    /\ pc' = "assign"
    /\ UNCHANGED <<options, python, lines, dtm, error, length, maxH, vLevels,
                   hSeries, db, n, buf_diss, source, dtm_out, diff, m3,
                   gridOps, applied>>

\* The same statement on a path of length 0: float division by zero.
SlopeFails ==
    /\ pc = "slope"
    /\ length = 0
    /\ error' = "ZeroDivisionError"
    /\ pc' = "crashed"
    /\ UNCHANGED <<options, python, lines, dtm, length, maxH, vLevels, hSeries,
                   db, i, n, buf_diss, source, dtm_out, diff, m3, gridOps,
                   messages, applied>>

\* The entries one station adds: its own level with chWidth/2, and every
\* level above it whose bufferWidth is at most chMaxWidth/2.
AssignEntries(d, st, level) ==
    [m \in DOMAIN d |->
        IF m = level THEN Append(d[m], [st |-> st, w |-> BottomHalfWidth])
        ELSE IF m > level /\ WidthFits(level, m)
             THEN Append(d[m], [st |-> st, w |-> BufferWidth(level, m)])
             ELSE d[m]]

\* One turn of "for aLine in lines".
AssignStation ==
    /\ pc = "assign"
    /\ i <= Len(lines)
    /\ LET level == LevelOf(lines[i]) IN
        /\ ListIndexOk(level)
        /\ DictKeyOk(level)
        /\ db' = AssignEntries(db, i, level)
    /\ i' = i + 1
    /\ UNCHANGED <<options, python, lines, dtm, pc, error, length, maxH,
                   vLevels, hSeries, n, buf_diss, source, dtm_out, diff, m3,
                   gridOps, messages, applied>>

\* The same turn when level is no index of hSeries or no key of db.
AssignFails ==
    /\ pc = "assign"
    /\ i <= Len(lines)
    /\ LET level == LevelOf(lines[i]) IN
        /\ ~(ListIndexOk(level) /\ DictKeyOk(level))
        /\ error' = IF ListIndexOk(level) THEN "KeyError" ELSE "IndexError"
    /\ pc' = "crashed"
    /\ UNCHANGED <<options, python, lines, dtm, length, maxH, vLevels, hSeries,
                   db, i, n, buf_diss, source, dtm_out, diff, m3, gridOps,
                   messages, applied>>

\* The .pascii files are written; g.region x2, v.buffer, r.mask.
WriteLevels ==
    /\ pc = "assign"
    /\ i > Len(lines)
    /\ gridOps' = gridOps + 4
    /\ n' = 1
    /\ pc' = "rasterize"
    /\ UNCHANGED <<options, python, lines, dtm, error, length, maxH, vLevels,
                   hSeries, db, i, buf_diss, source, dtm_out, diff, m3,
                   messages, applied>>

\* One turn of the first "for n in range(1, min(vLevels, limitRunLayers))".
RasterizeLevel ==
    /\ pc = "rasterize"
    /\ n \in RunLevels
    /\ Len(db[n]) > 0
    /\ buf_diss' = buf_diss @@ (n :> Rasterize(n))
    /\ gridOps' = gridOps + 5
    /\ n' = n + 1
    /\ UNCHANGED <<options, python, lines, dtm, pc, error, length, maxH,
                   vLevels, hSeries, db, i, source, dtm_out, diff, m3,
                   messages, applied>>

RasterizeSkip ==
    /\ pc = "rasterize"
    /\ n \in RunLevels
    /\ Len(db[n]) = 0
    /\ n' = n + 1
    /\ UNCHANGED <<options, python, lines, dtm, pc, error, length, maxH,
                   vLevels, hSeries, db, i, buf_diss, source, dtm_out, diff,
                   m3, gridOps, messages, applied>>

\* r.mask -r, g.region x2, source = basedtm
BeginSweep ==
    /\ pc = "rasterize"
    /\ n \notin RunLevels
    /\ source' = dtm
    /\ gridOps' = gridOps + 4
    /\ n' = 1
    /\ pc' = "sweep"
    /\ UNCHANGED <<options, python, lines, dtm, error, length, maxH, vLevels,
                   hSeries, db, i, buf_diss, dtm_out, diff, m3, messages,
                   applied>>

\* One turn of the second loop: temp = merge(buf_diss, source); g.rename.
ApplyLevel ==
    /\ pc = "sweep"
    /\ n \in RunLevels
    /\ Len(db[n]) > 0
    /\ messages' = messages \cup {"Applying"}
    /\ applied' = Append(applied, n)
    /\ source' = MapcalcMerge(buf_diss[n], source)
    /\ gridOps' = gridOps + 2
    /\ n' = n + 1
    /\ UNCHANGED <<options, python, lines, dtm, pc, error, length, maxH,
                   vLevels, hSeries, db, i, buf_diss, dtm_out, diff, m3>>

ApplySkip ==
    /\ pc = "sweep"
    /\ n \in RunLevels
    /\ Len(db[n]) = 0
    /\ n' = n + 1
    /\ UNCHANGED <<options, python, lines, dtm, pc, error, length, maxH,
                   vLevels, hSeries, db, i, buf_diss, source, dtm_out, diff,
                   m3, gridOps, messages, applied>>

EndSweep ==
    /\ pc = "sweep"
    /\ n \notin RunLevels
    /\ pc' = "finish"
    /\ UNCHANGED <<options, python, lines, dtm, error, length, maxH, vLevels,
                   hSeries, db, i, n, buf_diss, source, dtm_out, diff, m3,
                   gridOps, messages, applied>>

\* dtm_<base>, r.colors, r.relief, the difference under the buf200 mask,
\* its sum, the report and g.remove.
Finish ==
    /\ pc = "finish"
    /\ dtm_out' = MapcalcFill(source, dtm)
    /\ diff' = MapcalcDiff(dtm, MapcalcFill(source, dtm))
    /\ m3' = HRes * HRes * UnivarSum(MapcalcDiff(dtm, MapcalcFill(source, dtm)))
    /\ gridOps' = gridOps + 12
    /\ messages' = messages \cup {"Calculating volume difference", "Report"}
    /\ pc' = "done"
    /\ UNCHANGED <<options, python, lines, dtm, error, length, maxH, vLevels,
                   hSeries, db, i, n, buf_diss, source, applied>>

Next ==
    \/ SetupRegion
    \/ ReadProfile
    \/ CorridorPeak
    \/ BuildLevels
    \/ Slope
    \/ SlopeFails
    \/ AssignStation
    \/ AssignFails
    \/ WriteLevels
    \/ RasterizeLevel
    \/ RasterizeSkip
    \/ BeginSweep
    \/ ApplyLevel
    \/ ApplySkip
    \/ EndSweep
    \/ Finish

Spec == Init /\ [][Next]_vars

\* ------------------------------------------- the sweep in any level order
\* The levels the sweep applies.
ToApply == {m \in RunLevels : Len(db[m]) > 0}

Range(q) == {q[k] : k \in 1 .. Len(q)}

\* The merge step of the sweep, taken on any level not yet applied.
ApplyAnyLevel ==
    /\ pc = "sweep"
    /\ \E m \in ToApply \ Range(applied) :
        /\ applied' = Append(applied, m)
        /\ source' = MapcalcMerge(buf_diss[m], source)
    /\ messages' = messages \cup {"Applying"}
    /\ gridOps' = gridOps + 2
    /\ UNCHANGED <<options, python, lines, dtm, pc, error, length, maxH,
                   vLevels, hSeries, db, i, n, buf_diss, dtm_out, diff, m3>>

EndSweepAny ==
    /\ pc = "sweep"
    /\ ToApply \subseteq Range(applied)
    /\ pc' = "finish"
    /\ UNCHANGED <<options, python, lines, dtm, error, length, maxH, vLevels,
                   hSeries, db, i, n, buf_diss, source, dtm_out, diff, m3,
                   gridOps, messages, applied>>

InitAnyOrder == Init /\ options.limitRunLayers = SmallCap

NextAnyOrder ==
    \/ SetupRegion
    \/ ReadProfile
    \/ CorridorPeak
    \/ BuildLevels
    \/ Slope
    \/ SlopeFails
    \/ AssignStation
    \/ AssignFails
    \/ WriteLevels
    \/ RasterizeLevel
    \/ RasterizeSkip
    \/ BeginSweep
    \/ ApplyAnyLevel
    \/ EndSweepAny
    \/ Finish

SpecAnyOrder == InitAnyOrder /\ [][NextAnyOrder]_vars

\* The second loop of main() as a function: levels m, m+1, ... in order.
RECURSIVE SweepFrom(_, _)
SweepFrom(src, m) ==
    IF m \notin RunLevels THEN src
    ELSE SweepFrom(IF Len(db[m]) > 0 THEN MapcalcMerge(buf_diss[m], src) ELSE src,
                   m + 1)

\* ---------------------------------------------------------------- claims
\* The levels whose footprint raster covers cell c.
Covering(c) == {m \in DOMAIN buf_diss : c \in DOMAIN buf_diss[m]}

\* C1, as stated: after the sweep every cell holds the elevation of the
\* lowest-ordinal level covering it, also where the terrain is lower than
\* that level, and the terrain value where no level covers it.
C1_LowestLevelEverywhere ==
    pc = "done" =>
        \A c \in DOMAIN dtm :
            dtm_out[c] = IF Covering(c) = {} THEN dtm[c]
                         ELSE buf_diss[MinOf(Covering(c))][c]

\* C1, amended: after the sweep every cell with terrain data holds the
\* smaller of its terrain value and the elevation of the lowest-ordinal level
\* covering it (the terrain value where no level covers it); a cell without
\* terrain data stays without data.
C1_LowestLevelOrTerrain ==
    pc = "done" =>
        /\ DOMAIN dtm_out = DOMAIN dtm
        /\ \A c \in DOMAIN dtm :
            dtm_out[c] = IF Covering(c) = {} THEN dtm[c]
                         ELSE Min2(dtm[c], buf_diss[MinOf(Covering(c))][c])

\* A finished run of a trapezoid that widens upwards, with a cell dug to the
\* lowest of two covering levels, a covered cell whose terrain is below its
\* lowest level, and an uncovered cell.
C1_Witness ==
    /\ pc = "done"
    /\ options.chWidth <= options.chMaxWidth
    /\ \E c \in DOMAIN dtm :
        /\ Cardinality(Covering(c)) >= 2
        /\ dtm_out[c] = buf_diss[MinOf(Covering(c))][c]
        /\ dtm_out[c] < dtm[c]
    /\ \E c \in DOMAIN dtm :
        /\ Covering(c) # {}
        /\ dtm[c] < buf_diss[MinOf(Covering(c))][c]
    /\ \E c \in DOMAIN dtm : Covering(c) = {}

\* C2: the excavation never raises the terrain: each step of the sweep
\* leaves every cell of source at or below its value before the step, source
\* is never above the terrain, and neither is the excavated surface, so the
\* difference raster is nowhere negative.
C2_NeverRaises ==
    /\ [](/\ \A c \in DOMAIN source : c \in DOMAIN dtm /\ source[c] <= dtm[c]
          /\ \A c \in DOMAIN dtm_out : c \in DOMAIN dtm /\ dtm_out[c] <= dtm[c]
          /\ \A c \in DOMAIN diff : diff[c] >= 0)
    /\ [][\A c \in (DOMAIN source) \cap (DOMAIN source') : source'[c] <= source[c]]_vars

\* A finished run that applied two levels and lowered a cell.
C2_Witness ==
    /\ pc = "done"
    /\ Len(applied) >= 2
    /\ \E c \in DOMAIN diff : diff[c] > 0
    /\ \E c \in DOMAIN diff : diff[c] = 0

\* C3: in every configuration the half-width of a station's entry at its own
\* level is bottomWidth/2, its half-widths do not decrease with the level,
\* and no entry is wider than maxWidth/2.
C3_HalfWidths ==
    \A m \in DOMAIN db : \A k \in 1 .. Len(db[m]) :
        LET e == db[m][k] IN
        /\ e.w <= MaxHalfWidth
        /\ m = LevelOf(lines[e.st]) => e.w = BottomHalfWidth
        /\ \A m2 \in DOMAIN db : \A k2 \in 1 .. Len(db[m2]) :
            (m < m2 /\ db[m2][k2].st = e.st) => e.w <= db[m2][k2].w

\* ownLevel = clamp(round((ds - endHeight)/vRes) + 1, 1, vLevels-1)
ClampedLevel(along) ==
    IF LevelOf(along) < 1 THEN 1
    ELSE IF LevelOf(along) > vLevels - 1 THEN vLevels - 1
    ELSE LevelOf(along)

\* C4: whatever the heights are, the level assignment never fails on a level
\* outside 1..vLevels-1: every station it has passed is in the level its own
\* level clamps to, with the bottom half-width.
C4_LevelClamped ==
    /\ error \notin {"IndexError", "KeyError"}
    /\ pc = "assign" =>
        \A st \in 1 .. (i - 1) :
            \E k \in 1 .. Len(db[ClampedLevel(lines[st])]) :
                db[ClampedLevel(lines[st])][k] = [st |-> st, w |-> BottomHalfWidth]

\* C5: a run that ends with more usable levels than the cap has reported a
\* truncation warning.
C5_TruncationReported ==
    (pc = "done" /\ vLevels - 1 > options.limitRunLayers)
        => "TruncationWarning" \in messages

\* C6: on a path of length 0 the run does not finish, and when it has failed
\* no GRASS command has been issued.
C6_FailsBeforeGridWork ==
    lines[Len(lines)] = 0 => (pc # "done" /\ (pc = "crashed" => gridOps = 0))

\* C7: the elevation stamped into the raster of level m is
\* endHeight + (m-1)*vRes, so no two levels share an elevation.
C7_LevelElevations ==
    /\ \A m \in DOMAIN buf_diss : \A c \in DOMAIN buf_diss[m] :
        buf_diss[m][c] = options.endHeight + (m - 1) * options.vRes
    /\ \A m1, m2 \in DOMAIN hSeries : m1 < m2 => hSeries[m1] < hSeries[m2]

\* C8: applying the merge step over the same levels in any order ends with,
\* cell for cell, the surface the sweep in increasing level order ends with.
C8_AnyOrderSameSurface ==
    pc = "done" => dtm_out = MapcalcFill(SweepFrom(dtm, 1), dtm)

\* A finished sweep that took two overlapping levels out of order and dug.
C8_Witness ==
    /\ pc = "done"
    /\ \E k \in 1 .. (Len(applied) - 1) : applied[k] > applied[k + 1]
    /\ \E c \in DOMAIN dtm : Cardinality(Covering(c)) >= 2 /\ dtm_out[c] < dtm[c]

\* C9: the sweep applies exactly the non-empty levels 1..min(vLevels-1, cap),
\* each once, in increasing order.
C9_ExactLevels ==
    pc = "done" =>
        /\ \A k \in 1 .. (Len(applied) - 1) : applied[k] < applied[k + 1]
        /\ Range(applied) =
             {m \in 1 .. Min2(vLevels - 1, options.limitRunLayers) : Len(db[m]) > 0}
        /\ Len(applied) <= options.limitRunLayers

\* The early-stopping walk: a station enters a level above its own only if
\* its half-width fits at that level and at every level below it.
EarlyStopEntries(d, st, level) ==
    [m \in DOMAIN d |->
        IF m = level THEN Append(d[m], [st |-> st, w |-> BottomHalfWidth])
        ELSE IF m > level /\ \A j \in (level + 1) .. m : WidthFits(level, j)
             THEN Append(d[m], [st |-> st, w |-> BufferWidth(level, m)])
             ELSE d[m]]

RECURSIVE EarlyStopDb(_)
EarlyStopDb(k) ==
    IF k = 0 THEN [m \in 1 .. (vLevels - 1) |-> << >>]
    ELSE EarlyStopEntries(EarlyStopDb(k - 1), k, LevelOf(lines[k]))

\* C10: the entries the assignment loop has produced are those of the
\* early-stopping walk over the same stations.
C10_EarlyStopEquivalent ==
    pc = "assign" => db = EarlyStopDb(i - 1)

====
